---- MODULE Spec2Model ----
(***************************************************************************)
(* Model of the OFAC SDN screening functions of                            *)
(* src/app/connector/ofac/functions.py: search_ofac_sdn and                *)
(* match_ofac_entity, the credential check, the single outbound request,   *)
(* the per-item normalisation and the response envelopes.                  *)
(*                                                                         *)
(* Python values are tagged records, so that values of different Python    *)
(* types can be told apart and compared:                                   *)
(*   None -> [t |-> "null"]      str  -> [t |-> "str",  v |-> "..."]       *)
(*   int  -> [t |-> "num", v]    bool -> [t |-> "bool", v]                 *)
(*   list -> [t |-> "list", v |-> <<...>>]                                 *)
(*   dict -> [t |-> "obj",  v |-> [key |-> value]]                         *)
(***************************************************************************)
EXTENDS Integers, Sequences, FiniteSets, TLC

(* api_key    the value of os.getenv("APP_OFAC_OPENSANCTIONS_API_KEY")       *)
(*            (functions.py lines 151, 234)                                  *)
(* pc[i]      where call i stands: "idle", "awaiting" (suspended in          *)
(*            `await client.get`, lines 170, 255), "returned", "raised"      *)
(* op[i]      the function call i runs: "search", "match" ("none" before)    *)
(* args[i]    the arguments of call i (lines 148, 231)                       *)
(* request[i] the request call i has issued (lines 170-174, 255-259)         *)
(* reqs[i]    the number of requests call i has issued                       *)
(* resp[i]    what the get of call i produced: a response or a fault         *)
(* result[i]  the envelope call i returned                                   *)
VARIABLES api_key, pc, op, args, request, reqs, resp, result

vars == <<api_key, pc, op, args, request, reqs, resp, result>>

-----------------------------------------------------------------------------
(* Python / JSON values *)

JNull == [t |-> "null"]
JStr(s) == [t |-> "str", v |-> s]
JNum(n) == [t |-> "num", v |-> n]
JBool(b) == [t |-> "bool", v |-> b]
JList(s) == [t |-> "list", v |-> s]
JObj(f) == [t |-> "obj", v |-> f]
EmptyDict == JObj(<<>>)
EmptyList == JList(<<>>)
EmptyStr == JStr("")

(* bool(x): Python truthiness, as used by `if not api_key`, `if limit`,     *)
(* `if country` and `prop_list if prop_list else ""`.                       *)
Truthy(x) ==
    CASE x.t = "null" -> FALSE
      [] x.t = "str"  -> x.v # ""
      [] x.t = "num"  -> x.v # 0
      [] x.t = "bool" -> x.v
      [] x.t = "list" -> Len(x.v) > 0
      [] x.t = "obj"  -> DOMAIN x.v # {}

(* type(x).__name__, as it appears in Python's error messages *)
TypeName(x) ==
    CASE x.t = "null" -> "NoneType"
      [] x.t = "str"  -> "str"
      [] x.t = "num"  -> "int"
      [] x.t = "bool" -> "bool"
      [] x.t = "list" -> "list"
      [] x.t = "obj"  -> "dict"

(* d.get(k, default) on a dict d *)
DictGet(d, k, default) == IF k \in DOMAIN d.v THEN d.v[k] ELSE default

(* str(n) for an int n: decimal digits, "-" for a negative number *)
Digit(d) == <<"0", "1", "2", "3", "4", "5", "6", "7", "8", "9">>[d + 1]

RECURSIVE NatToStr(_)
NatToStr(n) == IF n < 10 THEN Digit(n) ELSE NatToStr(n \div 10) \o Digit(n % 10)

IntToStr(n) == IF n < 0 THEN "-" \o NatToStr(0 - n) ELSE NatToStr(n)

-----------------------------------------------------------------------------
(* Outcomes of a piece of Python code: a value, or a raised exception *)

Ok(v) == [ok |-> TRUE, val |-> v]
Raise(cls, msg) == [ok |-> FALSE, exc |-> [cls |-> cls, msg |-> msg]]

(* x.get(...) on an x that is no dict *)
NoGetAttr(x) ==
    Raise("AttributeError", "'" \o TypeName(x) \o "' object has no attribute 'get'")

(* for ... in x on an x that is not iterable *)
NotIterable(x) ==
    Raise("TypeError", "'" \o TypeName(x) \o "' object is not iterable")

(* The classes `except Exception` catches: every exception the body of the  *)
(* try block can raise is a subclass of Exception.                          *)
ExceptionSubclasses ==
    {"TransportError", "JSONDecodeError", "AttributeError", "TypeError",
     "ValidationError"}

(* A variant of the except clause that catches httpx's errors alone *)
CatchesOnlyTransport(exc) == exc.cls = "TransportError"

Catches(exc) == exc.cls \in ExceptionSubclasses

-----------------------------------------------------------------------------
(* Entity normalisation *)

(* get_first_or_value, defined identically inside both loops *)
get_first_or_value(prop_list) ==
    IF prop_list.t = "list" /\ Truthy(prop_list)
    THEN prop_list.v[1]
    ELSE IF Truthy(prop_list) THEN prop_list ELSE EmptyStr

(* pydantic field types of OfacSdnEntity and the response models *)
IsStr(x) == x.t = "str"
IsOptStr(x) == x.t \in {"str", "null"}
IsOptFloat(x) == x.t \in {"num", "null"}
IsInt(x) == x.t = "num"

(* OfacSdnEntity(...): the model validates its fields and raises            *)
(* ValidationError when one does not fit its declared type.                 *)
OfacSdnEntity(id, name, entity_type, country, address, birth_date, listed_date, program, score) ==
    IF /\ IsStr(id) /\ IsStr(name) /\ IsStr(entity_type)
       /\ IsOptStr(country) /\ IsOptStr(address) /\ IsOptStr(birth_date)
       /\ IsStr(listed_date) /\ IsStr(program) /\ IsOptFloat(score)
    THEN Ok([id |-> id, name |-> name, entity_type |-> entity_type,
             country |-> country, address |-> address,
             birth_date |-> birth_date, listed_date |-> listed_date,
             program |-> program, list_type |-> JStr("SDN"), score |-> score])
    ELSE Raise("ValidationError", "validation error for OfacSdnEntity")

(* The body of the loop over the items of data["results"] *)
NormalizeItem(item) ==
    IF item.t # "obj" THEN NoGetAttr(item)
    ELSE LET props == DictGet(item, "properties", EmptyDict) IN
         IF props.t # "obj" THEN NoGetAttr(props)
         ELSE OfacSdnEntity(
                DictGet(item, "id", EmptyStr),
                DictGet(item, "caption",
                        get_first_or_value(DictGet(props, "name", EmptyList))),
                DictGet(item, "schema", EmptyStr),
                get_first_or_value(DictGet(props, "country", EmptyList)),
                get_first_or_value(DictGet(props, "address", EmptyList)),
                get_first_or_value(DictGet(props, "birthDate", EmptyList)),
                get_first_or_value(DictGet(props, "createdAt", EmptyList)),
                get_first_or_value(DictGet(props, "programId", EmptyList)),
                DictGet(item, "score", JNull))

(* The loop over a list of items: entities appended in order, the first     *)
(* exception ends it.                                                       *)
RECURSIVE NormalizeList(_, _, _)
NormalizeList(items, k, acc) ==
    IF k > Len(items) THEN Ok(acc)
    ELSE LET e == NormalizeItem(items[k]) IN
         IF e.ok THEN NormalizeList(items, k + 1, Append(acc, e.val)) ELSE e

(* for item in data.get("results", []): a list is walked item by item; a    *)
(* str or a dict is iterable too and yields str items (its characters, its  *)
(* keys), on which item.get fails; anything else is not iterable.           *)
NormalizeResults(data) ==
    LET rs == DictGet(data, "results", EmptyList) IN
    CASE rs.t = "list" -> NormalizeList(rs.v, 1, <<>>)
      [] rs.t \in {"str", "obj"} ->
            IF Truthy(rs) THEN NoGetAttr(EmptyStr) ELSE Ok(<<>>)
      [] OTHER -> NotIterable(rs)

-----------------------------------------------------------------------------
(* Response envelopes *)

(* SearchOfacSdnResponse(success=..., results=..., total_count=..., error=...) *)
(* : total_count is declared int and error str | None.                        *)
SearchOfacSdnResponse(success, results, total_count, error) ==
    IF IsInt(total_count) /\ IsOptStr(error)
    THEN Ok([success |-> success, results |-> results,
             total_count |-> total_count, error |-> error])
    ELSE Raise("ValidationError", "validation error for SearchOfacSdnResponse")

(* MatchOfacEntityResponse(success=..., matches=..., error=...) *)
MatchOfacEntityResponse(success, matches, error) ==
    IF IsOptStr(error)
    THEN Ok([success |-> success, matches |-> matches, error |-> error])
    ELSE Raise("ValidationError", "validation error for MatchOfacEntityResponse")

(* The failure envelopes the functions return with a message *)
SearchFailure(msg) == SearchOfacSdnResponse(FALSE, <<>>, JNum(0), JStr(msg)).val

MatchFailure(msg) == MatchOfacEntityResponse(FALSE, <<>>, JStr(msg)).val

NotConfigured == "OpenSanctions API key not configured"

(* f"HTTP {response.status_code}: {response.text}" *)
HttpErrorMessage(r) == "HTTP " \o IntToStr(r.status) \o ": " \o r.text

-----------------------------------------------------------------------------
(* Credential, request, response *)

(* A variant without the credential check *)
CredentialMissingNever(key) == FALSE

(* `if not api_key`: os.getenv gives None for an unset variable, and an     *)
(* empty value is falsy as well.                                            *)

CredentialMissing(key) == ~Truthy(key)

Url == "https://api.opensanctions.org/search/us_ofac_sdn"

(* f"{x}" for a str, an int or None *)
Format(x) ==
    CASE x.t = "str" -> x.v
      [] x.t = "num" -> IntToStr(x.v)
      [] x.t = "null" -> "None"

Headers(key) ==
    ("Authorization" :> ("Bearer " \o Format(key))) @@ ("Content-Type" :> "application/json")

(* params = {"q": query}; if limit: params["limit"] = str(limit) *)
SearchParams(query, limit) ==
    IF Truthy(limit)
    THEN ("q" :> query.v) @@ ("limit" :> IntToStr(limit.v))
    ELSE ("q" :> query.v)

(* A variant that forwards entity_type as the schema parameter *)
MatchParamsWithSchema(name, country, entity_type) ==
    LET base == IF Truthy(country)
                THEN ("q" :> name.v) @@ ("countries" :> country.v)
                ELSE ("q" :> name.v)
    IN  IF Truthy(entity_type) THEN base @@ ("schema" :> entity_type.v) ELSE base

(* params = {"q": name}; if country: params["countries"] = country.         *)
(* entity_type is a parameter of the function that its body never reads.    *)
MatchParams(name, country, entity_type) ==
    IF Truthy(country)
    THEN ("q" :> name.v) @@ ("countries" :> country.v)
    ELSE ("q" :> name.v)

(* client.get(url, params=params, headers=headers) *)
Get(params, key) == [url |-> Url, params |-> params, headers |-> Headers(key)]

(* What `await client.get(...)` produces: a transport fault (an exception   *)
(* of httpx, msg being str(e)), or a response with its status code, its     *)
(* text and the document response.json() parses from the text (NotJson when *)
(* the text is no JSON and response.json() raises).                          *)
NotJson == [t |-> "notjson"]
Fault(msg) == [kind |-> "fault", msg |-> msg]
Http(status, text, doc) == [kind |-> "http", status |-> status, text |-> text, doc |-> doc]

Ok200 == 200

(* A variant that accepts every 2xx status *)
IsHttpErrorNon2xx(status) == status \div 100 # 2

(* `if response.status_code != 200` *)
IsHttpError(status) == status # Ok200

-----------------------------------------------------------------------------
(* The bodies of the two functions from the response on *)

(* total_count = data.get("total", 0); a dict is unwrapped by               *)
(* .get("value", 0)                                                         *)
TotalCount(data) ==
    LET total == DictGet(data, "total", JNum(0)) IN
    IF total.t = "obj" THEN DictGet(total, "value", JNum(0)) ELSE total

(* search_ofac_sdn from the awaited get on, inside the try block *)
SearchBody(r) ==
    IF r.kind = "fault" THEN Raise("TransportError", r.msg)
    ELSE IF IsHttpError(r.status) THEN Ok(SearchFailure(HttpErrorMessage(r)))
    ELSE IF r.doc = NotJson
         THEN Raise("JSONDecodeError", "Expecting value: line 1 column 1 (char 0)")
    ELSE IF r.doc.t # "obj" THEN NoGetAttr(r.doc)
    ELSE LET results == NormalizeResults(r.doc) IN
         IF ~results.ok THEN results
         ELSE SearchOfacSdnResponse(TRUE, results.val, TotalCount(r.doc), JNull)

(* match_ofac_entity from the awaited get on, inside the try block *)
MatchBody(r) ==
    IF r.kind = "fault" THEN Raise("TransportError", r.msg)
    ELSE IF IsHttpError(r.status) THEN Ok(MatchFailure(HttpErrorMessage(r)))
    ELSE IF r.doc = NotJson
         THEN Raise("JSONDecodeError", "Expecting value: line 1 column 1 (char 0)")
    ELSE IF r.doc.t # "obj" THEN NoGetAttr(r.doc)
    ELSE LET matches == NormalizeResults(r.doc) IN
         IF ~matches.ok THEN matches
         ELSE MatchOfacEntityResponse(TRUE, matches.val, JNull)

-----------------------------------------------------------------------------
(* Inputs the host framework and the upstream service can supply *)

NumCalls == 2
Calls == 1 .. NumCalls

(* os.getenv("APP_OFAC_OPENSANCTIONS_API_KEY"): unset, set but empty, set *)
Credentials == {JNull, EmptyStr, JStr("sk-1")}

Queries == {JStr("jane")}
Limits == {JNull, JNum(0), JNum(10)}
Countries == {JNull, EmptyStr, JStr("US")}
EntityTypes == {JNull, JStr("Person")}

Props(country, programId) ==
    JObj(("country" :> country) @@ ("programId" :> programId))

Item(id, caption, properties) ==
    JObj(("id" :> JStr(id)) @@ ("caption" :> caption) @@ ("schema" :> JStr("Person"))
         @@ ("score" :> JNum(1)) @@ ("properties" :> properties))

JaneDoe ==
    Item("Q1", JStr("Jane Doe"), Props(JList(<<JStr("US")>>), JList(<<JStr("SDN-1")>>)))

AcmeLtd ==
    Item("Q2", JStr("Acme Ltd"), Props(JStr("CA"), JList(<<JStr("SDN-2"), JStr("SDN-3")>>)))

NullCaption == Item("Q3", JNull, Props(EmptyList, EmptyList))

Body(results, total) == JObj(("results" :> JList(results)) @@ ("total" :> total))

(* The responses of the concurrent specification: both kinds of transport   *)
(* fault text, non-200 statuses inside and outside 2xx, a body that is no    *)
(* JSON, well-formed bodies and a body with a malformed item.  The text of  *)
(* a JSON body is written in short (Q1 for the item JaneDoe); the document  *)
(* next to it is what response.json() gives for it.                         *)
Responses ==
    { Fault(""),
      Fault("All connection attempts failed"),
      Http(500, "boom", NotJson),
      Http(201, "{\"results\": [], \"total\": 0}", Body(<<>>, JNum(0))),
      Http(200, "<html>", NotJson),
      Http(200, "{\"results\": [Q1], \"total\": 1}", Body(<<JaneDoe>>, JNum(1))),
      Http(200, "{\"results\": [Q1, Q2], \"total\": {\"value\": 7}}",
           Body(<<JaneDoe, AcmeLtd>>, JObj("value" :> JNum(7)))),
      Http(200, "{\"results\": [Q3], \"total\": 1}", Body(<<NullCaption>>, JNum(1))) }

-----------------------------------------------------------------------------
(* The state machine: each call is idle, then awaiting its response (the    *)
(* single await of its body), then returned (or raised, were an exception   *)
(* to leave the function).  The code between two awaits runs as one step.   *)

Init ==
    /\ api_key \in Credentials
    /\ pc = [i \in Calls |-> "idle"]
    /\ op = [i \in Calls |-> "none"]
    /\ args = [i \in Calls |-> JNull]
    /\ request = [i \in Calls |-> JNull]
    /\ reqs = [i \in Calls |-> 0]
    /\ resp = [i \in Calls |-> JNull]
    /\ result = [i \in Calls |-> JNull]

(* Calls are numbered in the order the host starts them *)
NextToStart(i) == \A j \in Calls : j < i => pc[j] # "idle"

(* return <envelope> *)
Return(i, envelope) ==
    /\ pc' = [pc EXCEPT ![i] = "returned"]
    /\ result' = [result EXCEPT ![i] = envelope]

(* the exception leaves the function *)
Propagate(i) ==
    /\ pc' = [pc EXCEPT ![i] = "raised"]
    /\ UNCHANGED result

(* await client.get(...): the request goes out and the call is suspended *)
Send(i, req) ==
    /\ request' = [request EXCEPT ![i] = req]
    /\ reqs' = [reqs EXCEPT ![i] = @ + 1]
    /\ pc' = [pc EXCEPT ![i] = "awaiting"]
    /\ UNCHANGED result

(* search_ofac_sdn(query, limit) up to its await *)
search_ofac_sdn(i, query, limit) ==
    /\ pc[i] = "idle"
    /\ NextToStart(i)
    /\ op' = [op EXCEPT ![i] = "search"]
    /\ args' = [args EXCEPT ![i] = [query |-> query, limit |-> limit]]
    /\ IF CredentialMissing(api_key)
       THEN Return(i, SearchFailure(NotConfigured)) /\ UNCHANGED <<request, reqs>>
       ELSE Send(i, Get(SearchParams(query, limit), api_key))
    /\ UNCHANGED <<api_key, resp>>

(* match_ofac_entity(name, country, entity_type) up to its await *)
match_ofac_entity(i, name, country, entity_type) ==
    /\ pc[i] = "idle"
    /\ NextToStart(i)
    /\ op' = [op EXCEPT ![i] = "match"]
    /\ args' = [args EXCEPT ![i] =
                  [name |-> name, country |-> country, entity_type |-> entity_type]]
    /\ IF CredentialMissing(api_key)
       THEN Return(i, MatchFailure(NotConfigured)) /\ UNCHANGED <<request, reqs>>
       ELSE Send(i, Get(MatchParams(name, country, entity_type), api_key))
    /\ UNCHANGED <<api_key, resp>>

(* The rest of a call once its get has completed with r: the value the try  *)
(* block returns, or the envelope of the except clause.                     *)
Finish(i, out) ==
    IF out.ok THEN Return(i, out.val)
    ELSE IF Catches(out.exc)
         THEN Return(i, IF op[i] = "search" THEN SearchFailure(out.exc.msg)
                        ELSE MatchFailure(out.exc.msg))
    ELSE Propagate(i)

(* A variant that asks again, once, after a fault or a non-200 status: what *)
(* the single-request property must tell apart from the code.               *)
search_ofac_sdn_retrying(i, r) ==
    /\ pc[i] = "awaiting"
    /\ op[i] = "search"
    /\ resp' = [resp EXCEPT ![i] = r]
    /\ IF reqs[i] < 2 /\ (r.kind = "fault" \/ IsHttpError(r.status))
       THEN Send(i, request[i])
       ELSE Finish(i, SearchBody(r)) /\ UNCHANGED <<request, reqs>>
    /\ UNCHANGED <<api_key, op, args>>

(* search_ofac_sdn resumed with the outcome r of its get *)
search_ofac_sdn_resume(i, r) ==
    /\ pc[i] = "awaiting"
    /\ op[i] = "search"
    /\ resp' = [resp EXCEPT ![i] = r]
    /\ Finish(i, SearchBody(r))
    /\ UNCHANGED <<api_key, op, args, request, reqs>>

(* match_ofac_entity resumed with the outcome r of its get *)
match_ofac_entity_resume(i, r) ==
    /\ pc[i] = "awaiting"
    /\ op[i] = "match"
    /\ resp' = [resp EXCEPT ![i] = r]
    /\ Finish(i, MatchBody(r))
    /\ UNCHANGED <<api_key, op, args, request, reqs>>

Next ==
    \/ \E i \in Calls, q \in Queries, l \in Limits : search_ofac_sdn(i, q, l)
    \/ \E i \in Calls, n \in Queries, c \in Countries, e \in EntityTypes :
          match_ofac_entity(i, n, c, e)
    \/ \E i \in Calls, r \in Responses : search_ofac_sdn_resume(i, r)
    \/ \E i \in Calls, r \in Responses : match_ofac_entity_resume(i, r)

Spec == Init /\ [][Next]_vars

-----------------------------------------------------------------------------
(* A second specification: one call, and the upstream answering 200 with    *)
(* every document of a family of well-formed and malformed payloads.        *)

MaxItems == 2

TopFull ==
    ("id" :> JStr("Q1")) @@ ("caption" :> JStr("Jane Doe"))
    @@ ("schema" :> JStr("Person")) @@ ("score" :> JNum(1))

(* The top-level keys of an item: all present, none, no caption, a null     *)
(* caption, an id that is no string, a null score                           *)
Tops ==
    { TopFull,
      <<>>,
      ("id" :> JStr("Q1")) @@ ("schema" :> JStr("Person")),
      [TopFull EXCEPT !["caption"] = JNull],
      [TopFull EXCEPT !["id"] = JNum(7)],
      [TopFull EXCEPT !["score"] = JNull] }

PropertyKeys == {"name", "country", "address", "birthDate", "createdAt", "programId"}

PropertyValues ==
    { JNull, EmptyList, JList(<<JStr("US"), JStr("CA")>>), JList(<<JNull>>),
      JStr("US"), EmptyStr, JNum(0), JNum(5), JBool(FALSE) }

(* item["properties"]: absent, null, a list, or a dict with no key, one key *)
(* or every key                                                             *)
PropertiesParts ==
    {<<>>}
    \cup {("properties" :> v) : v \in {JNull, EmptyList, EmptyDict}}
    \cup {("properties" :> JObj(k :> v)) : k \in PropertyKeys, v \in PropertyValues}
    \cup {("properties" :> JObj([k \in PropertyKeys |-> v])) : v \in PropertyValues}

Items == {JObj(top @@ pp) : top \in Tops, pp \in PropertiesParts} \cup {JStr("x"), JNull}

CoreItems == {JaneDoe, AcmeLtd, NullCaption, EmptyDict}

ResultLists ==
    UNION {[1 .. n -> CoreItems] : n \in 0 .. MaxItems} \cup {<<it>> : it \in Items}

ResultsParts ==
    {<<>>}
    \cup {("results" :> v) : v \in {JNull, EmptyStr, JNum(3)}}
    \cup {("results" :> JList(l)) : l \in ResultLists}

TotalParts ==
    {<<>>}
    \cup {("total" :> v) : v \in {JNull, JNum(42), JObj("value" :> JNum(7)), EmptyDict,
                                  JObj("value" :> JNull), JStr("many")}}

Documents ==
    {JObj(rp @@ tp) : rp \in ResultsParts, tp \in TotalParts}
    \cup {JNull, EmptyList, JStr("x")}

(* The text of these responses is the serialised document; on a 200 the     *)
(* functions read it through response.json() alone.                         *)
Payloads == {Http(Ok200, "(json)", doc) : doc \in Documents}

NextPayload ==
    \/ \E q \in Queries, l \in Limits : search_ofac_sdn(1, q, l)
    \/ \E n \in Queries, c \in Countries, e \in EntityTypes :
          match_ofac_entity(1, n, c, e)
    \/ \E r \in Payloads : search_ofac_sdn_resume(1, r)
    \/ \E r \in Payloads : match_ofac_entity_resume(1, r)

SpecPayload == Init /\ [][NextPayload]_vars

-----------------------------------------------------------------------------
(* Vocabulary of the properties *)

Returned(i) == pc[i] = "returned"
Answered(i) == Returned(i) /\ resp[i] # JNull
Entities(i) == IF op[i] = "search" THEN result[i].results ELSE result[i].matches
ErrorNonEmpty(e) == e.t = "str" /\ e.v # ""
ErrorEmptyOrAbsent(e) == e = JNull \/ e = EmptyStr
Is2xx(status) == status \div 100 = 2

(* The upstream-HTTP-error envelope for a response r *)
IsHttpErrorEnvelope(i, r) ==
    /\ result[i].success = FALSE
    /\ Entities(i) = <<>>
    /\ op[i] = "search" => result[i].total_count = JNum(0)
    /\ result[i].error = JStr("HTTP " \o IntToStr(r.status) \o ": " \o r.text)

-----------------------------------------------------------------------------
(* C1: every returned envelope has success = false exactly when its error   *)
(* is a non-empty string and its entity list is empty, and success = true   *)
(* exactly when its error is empty or absent.                               *)
EnvelopeInvariant ==
    \A i \in Calls :
        Returned(i) =>
            /\ (result[i].success = FALSE)
                  <=> (ErrorNonEmpty(result[i].error) /\ Entities(i) = <<>>)
            /\ (result[i].success = TRUE) <=> ErrorEmptyOrAbsent(result[i].error)

(* C2: no call ever ends by raising; a missing credential, a transport      *)
(* fault and a non-2xx status are each returned as success = false with the *)
(* condition's message as error, and a document that is no JSON or holds a  *)
(* malformed item is returned as an envelope too.                           *)
NoExceptionEscapes ==
    \A i \in Calls :
        /\ pc[i] # "raised"
        /\ pc[i] \in {"idle", "awaiting", "returned"}
        /\ Returned(i) => result[i].success \in BOOLEAN
        /\ (Returned(i) /\ api_key = JNull) =>
              /\ result[i].success = FALSE
              /\ result[i].error = JStr("OpenSanctions API key not configured")
        /\ (Answered(i) /\ resp[i].kind = "fault") =>
              /\ result[i].success = FALSE
              /\ result[i].error = JStr(resp[i].msg)
        /\ (Answered(i) /\ resp[i].kind = "http" /\ ~Is2xx(resp[i].status)) =>
              IsHttpErrorEnvelope(i, resp[i])

NoExceptionEscapesWitness ==
    \E i, j \in Calls :
        /\ Answered(i) /\ resp[i].kind = "http" /\ resp[i].doc = NotJson
        /\ resp[i].status = Ok200 /\ result[i].success = FALSE
        /\ Answered(j) /\ resp[j].kind = "fault"

(* C3: with the credential variable unset, every call returns success =     *)
(* false, an empty entity list, total_count 0 (search) and a non-empty      *)
(* error, and no request is ever issued.                                    *)
CredentialAbsentFailFast ==
    api_key = JNull =>
        \A i \in Calls :
            /\ pc[i] # "awaiting"
            /\ reqs[i] = 0
            /\ request[i] = JNull
            /\ resp[i] = JNull
            /\ Returned(i) =>
                  /\ result[i].success = FALSE
                  /\ Entities(i) = <<>>
                  /\ ErrorNonEmpty(result[i].error)
                  /\ op[i] = "search" => result[i].total_count = JNum(0)

CredentialAbsentWitness ==
    /\ api_key = JNull
    /\ \E i, j \in Calls :
          /\ Returned(i) /\ op[i] = "search"
          /\ Returned(j) /\ op[j] = "match"

(* C4, as amended: with a credential and a completed request, the call      *)
(* returns the upstream-HTTP-error envelope (success = false, empty entity  *)
(* list, error "HTTP <status>: <raw text>") exactly when the status is not  *)
(* 200; a 200 response is never reported as an HTTP error.                  *)
HttpErrorExactlyWhenNot200 ==
    \A i \in Calls :
        (Answered(i) /\ resp[i].kind = "http") =>
            (IsHttpErrorEnvelope(i, resp[i]) <=> resp[i].status # 200)

HttpErrorWitness ==
    \E i, j \in Calls :
        /\ Answered(i) /\ resp[i].kind = "http" /\ resp[i].status = 500
        /\ resp[i].text = "boom" /\ IsHttpErrorEnvelope(i, resp[i])
        /\ Answered(j) /\ resp[j].kind = "http" /\ resp[j].status = 200
        /\ result[j].success = TRUE

(* C4, as stated: the HTTP-error envelope is returned exactly when the      *)
(* status is non-2xx; no 2xx status is reported as an HTTP error.           *)
HttpErrorExactlyWhenNon2xx ==
    \A i \in Calls :
        (Answered(i) /\ resp[i].kind = "http") =>
            (IsHttpErrorEnvelope(i, resp[i]) <=> ~Is2xx(resp[i].status))

(* C8: a search that issues its request sends q = query, and sends          *)
(* limit = str(limit) exactly when limit is not null (0 included).          *)
SearchRequestParameters ==
    \A i \in Calls :
        (op[i] = "search" /\ request[i] # JNull) =>
            /\ request[i].params["q"] = args[i].query.v
            /\ ("limit" \in DOMAIN request[i].params) <=> (args[i].limit # JNull)
            /\ args[i].limit # JNull =>
                  request[i].params["limit"] = IntToStr(args[i].limit.v)
            /\ DOMAIN request[i].params \subseteq {"q", "limit"}

AtMostOneRequest ==
    \A i \in Calls :
        /\ reqs[i] <= 1
        /\ (pc[i] = "idle") <=> (op[i] = "none")
        /\ pc[i] = "awaiting" => reqs[i] = 1
        /\ \A j \in Calls :
              ( /\ Returned(i) /\ Returned(j)
                /\ op[i] = op[j] /\ args[i] = args[j] /\ resp[i] = resp[j] ) =>
                  result[i] = result[j]

(* In every step: a fault or a non-2xx response ends the call that takes it *)
(* with the failure envelope, and a step of one call leaves the others as   *)
(* they were                                                                *)
FailureReturnsAtOnce ==
    \A i \in Calls :
        /\ ( /\ pc[i] = "awaiting"
             /\ resp'[i] # resp[i]
             /\ \/ resp'[i].kind = "fault"
                \/ resp'[i].kind = "http" /\ ~Is2xx(resp'[i].status) ) =>
              /\ pc'[i] = "returned"
              /\ result'[i].success = FALSE
              /\ reqs'[i] = reqs[i]
              /\ request'[i] = request[i]
        /\ pc'[i] # pc[i] =>
              \A j \in Calls \ {i} :
                  /\ pc'[j] = pc[j] /\ result'[j] = result[j]
                  /\ request'[j] = request[j] /\ resp'[j] = resp[j]
                  /\ reqs'[j] = reqs[j]

(* C10: a call issues at most one request; the step that takes a fault or a *)
(* non-2xx response returns the failure envelope without another request; a *)
(* step of one call changes nothing of another call, and two calls with the *)
(* same operation, arguments and response return the same envelope.         *)
SingleRequestNoRetry == [](AtMostOneRequest) /\ [][FailureReturnsAtOnce]_vars

SingleRequestWitness ==
    \E i, j \in Calls :
        /\ Answered(i) /\ resp[i].kind = "fault" /\ reqs[i] = 1
        /\ Answered(j) /\ resp[j].kind = "http" /\ resp[j].status = 500 /\ reqs[j] = 1

-----------------------------------------------------------------------------
(* Properties of the payload handling, stated on the document of the        *)
(* response and the envelope returned for it                                *)

EntityFields ==
    {"id", "name", "entity_type", "country", "address", "birth_date",
     "listed_date", "program", "list_type", "score"}

(* the 200 responses whose document is an object with a results array *)
HasResultsArray(i) ==
    /\ Answered(i)
    /\ resp[i].kind = "http" /\ resp[i].status = 200
    /\ resp[i].doc # NotJson /\ resp[i].doc.t = "obj"
    /\ "results" \in DOMAIN resp[i].doc.v
    /\ resp[i].doc.v["results"].t = "list"

RawItems(i) == resp[i].doc.v["results"].v

(* total is absent, an integer or {value: integer} *)
TotalWellFormed(doc) ==
    \/ "total" \notin DOMAIN doc.v
    \/ doc.v["total"].t = "num"
    \/ /\ doc.v["total"].t = "obj"
       /\ "value" \in DOMAIN doc.v["total"].v
       /\ doc.v["total"].v["value"].t = "num"

(* C5: a 200 response whose results array holds JSON objects, however       *)
(* malformed, is answered with success = true and one entity per item, each *)
(* with every field set.                                                    *)
NormalizationTotal ==
    \A i \in Calls :
        ( /\ HasResultsArray(i)
          /\ \A k \in 1 .. Len(RawItems(i)) : RawItems(i)[k].t = "obj"
          /\ TotalWellFormed(resp[i].doc) ) =>
            /\ result[i].success = TRUE
            /\ Len(Entities(i)) = Len(RawItems(i))
            /\ \A k \in 1 .. Len(Entities(i)) : DOMAIN Entities(i)[k] = EntityFields

(* The first-value-or-default rule as the specification words it: element 0 *)
(* of a non-empty array, a non-null scalar itself, the empty string for an  *)
(* absent, null or empty-array property.                                    *)
FirstValueOrDefault(props, key) ==
    IF key \notin DOMAIN props.v THEN EmptyStr
    ELSE LET p == props.v[key] IN
         CASE p.t = "list" -> IF Len(p.v) > 0 THEN p.v[1] ELSE EmptyStr
           [] p.t = "null" -> EmptyStr
           [] OTHER -> p

PropertiesOf(item) ==
    IF "properties" \in DOMAIN item.v THEN item.v["properties"] ELSE EmptyDict

(* C6: in every entity of a successful envelope, of search and of match     *)
(* alike, country, address, birth_date, program and listed_date each equal  *)
(* the first-value-or-default of their source property.                     *)
FirstValueOrDefaultRule ==
    \A i \in Calls :
        (HasResultsArray(i) /\ result[i].success = TRUE) =>
            \A k \in 1 .. Len(Entities(i)) :
                LET props == PropertiesOf(RawItems(i)[k])
                    e == Entities(i)[k]
                IN  /\ e.country = FirstValueOrDefault(props, "country")
                    /\ e.address = FirstValueOrDefault(props, "address")
                    /\ e.birth_date = FirstValueOrDefault(props, "birthDate")
                    /\ e.program = FirstValueOrDefault(props, "programId")
                    /\ e.listed_date = FirstValueOrDefault(props, "createdAt")

(* total unwrapped as the specification words it *)
UnwrappedTotal(doc) ==
    IF "total" \notin DOMAIN doc.v THEN JNum(0)
    ELSE LET total == doc.v["total"] IN
         CASE total.t = "num" -> total
           [] total.t = "obj" /\ "value" \in DOMAIN total.v /\ total.v["value"].t = "num"
                -> total.v["value"]
           [] OTHER -> JNum(0)

(* C7: a search answered 200 with well-formed results succeeds whatever the *)
(* shape of total, with total_count the bare integer, the unwrapped value,  *)
(* or 0.                                                                    *)
TotalCountUnwrapping ==
    \A i \in Calls :
        ( /\ op[i] = "search"
          /\ HasResultsArray(i)
          /\ \A k \in 1 .. Len(RawItems(i)) : RawItems(i)[k] \in {JaneDoe, AcmeLtd} ) =>
            /\ result[i].success = TRUE
            /\ result[i].total_count = UnwrappedTotal(resp[i].doc)

====
